---- MODULE Spec2Model ----
(***************************************************************************)
(* Presence-and-relay server of the chat application                       *)
(* (backend/src/lib/socket.js) and the chat store of its web client        *)
(* (frontend/src/stores/useChatStore.ts).  One state machine: the          *)
(* socket.io connections, the two shared maps userSockets and              *)
(* userActivities, the message collection behind Message.create, the       *)
(* send_message handlers suspended at their await, and one browser's       *)
(* store with its socket, its registered listeners and its pending         *)
(* history requests.                                                       *)
(***************************************************************************)
EXTENDS Integers, Sequences, FiniteSets

(* ---------------- bounds ---------------- *)
\* connections the server accepts during one run
MaxConns == 2
\* send_message events the server handles during one run
MaxRequests == 1
\* initSocket calls of the browser during one run
MaxInits == 2
\* fetchMessages calls of the browser during one run
MaxFetches == 1
\* documents in the message collection when the browser starts
MaxStored == 2
\* events queued on the browser's socket
MaxInbox == 2

(* ---------------- domains ---------------- *)
\* socket ids; a socket id is never reused after its socket has closed
Conn == 1..MaxConns
\* Clerk user ids (non-empty strings)
UserIds == {"A", "B"}
\* activity labels a client may send; "Online" is also the server's default
Activities == {"Online", "Busy"}
\* message bodies
Contents == {"hi"}

\* Map.get of a missing key / an unset local (undefined)
Undefined == 0
\* userActivities.get of a missing key
NoActivity == "undefined"
\* the room of io.emit: every connected socket
Broadcast == 0
NoUser == ""
\* selectedUser: null
NoSelection == "null"
\* a Map key read from a field the payload does not have (undefined)
UndefinedKey == "undefined"

VARIABLES
    connState,       \* socket id -> "unborn" | "connected" | "disconnected"
    userSockets,     \* Map clerkId -> socketId, in insertion order
    userActivities,  \* Map clerkId -> activity
    messages,        \* documents created by Message.create, in creation order
    requests,        \* send_message invocations: await state and locals
    emitted,         \* emits performed by the last handler step, in order
    last,            \* the event handled by the last step
    \* the store of one browser (useChatStore) and its module-level socket
    isConnected,     \* store field isConnected
    onlineUsers,     \* store field onlineUsers (a Set)
    clientActivities,\* store field userActivities (a Map), key -> label
    clientMessages,  \* store field messages (an array)
    selectedUser,    \* clerkId of store field selectedUser, or NoSelection
    isLoading,       \* store field isLoading
    listeners,       \* one entry per initSocket call that registered its
                     \* listeners: the userId those closures captured
    fetches,         \* fetchMessages invocations: await state and argument
    clientSocket,    \* the server's id of the browser's open connection
    outbox,          \* user_connected packets sent, not yet handled
    inbox,           \* events sent to the browser's socket, not yet handled
    received,        \* ids of the messages relayed to the browser so far
    seen             \* what the last browser step handled

server == <<connState, userSockets, userActivities, messages, requests,
            emitted, last>>
store == <<isConnected, onlineUsers, clientActivities, clientMessages,
           selectedUser, isLoading, listeners, fetches>>
link == <<clientSocket, outbox, inbox, received>>
vars == <<connState, userSockets, userActivities, messages, requests,
          emitted, last, isConnected, onlineUsers, clientActivities,
          clientMessages, selectedUser, isLoading, listeners, fetches,
          clientSocket, outbox, inbox, received, seen>>

(* ---------------- JavaScript Map, insertion ordered ---------------- *)
MapIndex(m, k) ==
    IF \E i \in 1..Len(m) : m[i].clerkId = k
    THEN CHOOSE i \in 1..Len(m) : m[i].clerkId = k
    ELSE 0

MapHas(m, k) == MapIndex(m, k) # 0

MapGet(m, k) ==
    IF MapHas(m, k) THEN m[MapIndex(m, k)].socketId ELSE Undefined

\* Map.prototype.set: an existing key keeps its position
MapSet(m, k, v) ==
    IF MapHas(m, k)
    THEN [m EXCEPT ![MapIndex(m, k)] = [clerkId |-> k, socketId |-> v]]
    ELSE Append(m, [clerkId |-> k, socketId |-> v])

MapDelete(m, k) ==
    IF MapHas(m, k)
    THEN [i \in 1..(Len(m) - 1) |->
             IF i < MapIndex(m, k) THEN m[i] ELSE m[i + 1]]
    ELSE m

\* Array.from(map.keys())
MapKeys(m) == [i \in 1..Len(m) |-> m[i].clerkId]

KeySet(m) == {m[i].clerkId : i \in 1..Len(m)}
ValueSet(m) == {m[i].socketId : i \in 1..Len(m)}

\* JavaScript truthiness of a string id / of a socket id lookup
Truthy(u) == u # NoUser
Found(socketId) == socketId # Undefined

(* ---------------- socket.io emits ---------------- *)
Connected(cs) == {c \in Conn : cs[c] = "connected"}

\* io.emit(event, payload): every socket connected at that moment
IoEmit(cs, ev, payload) ==
    [event |-> ev, room |-> Broadcast, payload |-> payload,
     to |-> Connected(cs)]

\* io.to(socketId).emit(event, payload): the members of room socketId
IoToEmit(cs, socketId, ev, payload) ==
    [event |-> ev, room |-> socketId, payload |-> payload,
     to |-> Connected(cs) \cap {socketId}]

\* socket.emit(event, payload): dropped once the socket has closed
SocketEmit(cs, socket, ev, payload) ==
    [event |-> ev, room |-> socket, payload |-> payload,
     to |-> Connected(cs) \cap {socket}]

\* a send_message invocation suspended at its await holds its socket and
\* its destructured data; once it has run to its end only the outcome is left
Suspended(socket, senderId, receiverId, content) ==
    [state |-> "pending", socket |-> socket, senderId |-> senderId,
     receiverId |-> receiverId, content |-> content]

Finished(outcome) ==
    [state |-> outcome, socket |-> Undefined, senderId |-> NoUser,
     receiverId |-> NoUser, content |-> ""]

\* the event handled by a step: handler, socket, user id argument, request;
\* again is the socket whose user_connected for the same user id was the
\* event handled immediately before (Undefined otherwise); for the step in
\* which a create call returns, the user id looked at is the receiverId
Handled(op, socket, clerkId, req) ==
    [op |-> op, socket |-> socket, clerkId |-> clerkId, req |-> req,
     again |-> Undefined]

Again(prev, clerkId) ==
    IF prev.op = "user_connected" /\ prev.clerkId = clerkId
    THEN prev.socket ELSE Undefined

(* ---------------- initial state ---------------- *)
\* keys the store's userActivities Map can hold
MirrorKeys == UserIds \cup {UndefinedKey}

InitStore ==
    /\ isConnected = FALSE
    /\ onlineUsers = {}
    /\ clientActivities = [k \in MirrorKeys |-> NoActivity]
    /\ clientMessages = <<>>
    /\ selectedUser = NoSelection
    /\ isLoading = FALSE
    /\ listeners = <<>>
    /\ fetches = <<>>
    /\ clientSocket = Undefined
    /\ outbox = {}
    /\ inbox = <<>>
    /\ received = {}
    /\ seen = [op |-> "init", userId |-> NoUser, id |-> 0, tick |-> 0]

Init ==
    /\ connState = [c \in Conn |-> "unborn"]
    /\ userSockets = <<>>
    /\ userActivities = [u \in UserIds |-> NoActivity]
    /\ messages = <<>>
    /\ requests = <<>>
    /\ emitted = <<>>
    /\ last = Handled("init", Undefined, NoUser, 0)
    /\ InitStore

(* ---------------- handlers ---------------- *)
\* io.on("connection"): socket ids are handed out in order
connection(c) ==
    /\ connState[c] = "unborn"
    /\ \A d \in Conn : d < c => connState[d] # "unborn"
    /\ connState' = [connState EXCEPT ![c] = "connected"]
    /\ emitted' = <<>>
    /\ last' = Handled("connection", c, NoUser, 0)
    /\ UNCHANGED <<userSockets, userActivities, messages, requests>>

\* variant: the user id is pushed onto a list instead of set in the Map
user_connected_Push(c, clerkId) ==
    /\ connState[c] = "connected"
    /\ userSockets' = Append(userSockets,
                             [clerkId |-> clerkId, socketId |-> c])
    /\ userActivities' = [userActivities EXCEPT ![clerkId] = "Online"]
    /\ emitted' = <<IoEmit(connState, "users_online", MapKeys(userSockets'))>>
    /\ last' = [Handled("user_connected", c, clerkId, 0)
                   EXCEPT !.again = Again(last, clerkId)]
    /\ UNCHANGED <<connState, messages, requests>>

\* variant: registration resets every user's label
user_connected_ResetAll(c, clerkId) ==
    /\ connState[c] = "connected"
    /\ userSockets' = MapSet(userSockets, clerkId, c)
    /\ userActivities' = [u \in UserIds |->
                             IF u = clerkId \/ userActivities[u] # NoActivity
                             THEN "Online" ELSE NoActivity]
    /\ emitted' = <<IoEmit(connState, "users_online", MapKeys(userSockets'))>>
    /\ last' = [Handled("user_connected", c, clerkId, 0)
                   EXCEPT !.again = Again(last, clerkId)]
    /\ UNCHANGED <<connState, messages, requests>>

\* variant: the online list is sent to the registering socket only
user_connected_Reply(c, clerkId) ==
    /\ connState[c] = "connected"
    /\ userSockets' = MapSet(userSockets, clerkId, c)
    /\ userActivities' = [userActivities EXCEPT ![clerkId] = "Online"]
    /\ emitted' = <<SocketEmit(connState, c, "users_online",
                               MapKeys(userSockets'))>>
    /\ last' = [Handled("user_connected", c, clerkId, 0)
                   EXCEPT !.again = Again(last, clerkId)]
    /\ UNCHANGED <<connState, messages, requests>>

\* variant: registration leaves the activity map alone
user_connected_NoDefault(c, clerkId) ==
    /\ connState[c] = "connected"
    /\ userSockets' = MapSet(userSockets, clerkId, c)
    /\ emitted' = <<IoEmit(connState, "users_online", MapKeys(userSockets'))>>
    /\ last' = [Handled("user_connected", c, clerkId, 0)
                   EXCEPT !.again = Again(last, clerkId)]
    /\ UNCHANGED <<connState, userActivities, messages, requests>>

\* socket.on("user_connected", clerkId)
user_connected(c, clerkId) ==
    /\ connState[c] = "connected"
    /\ userSockets' = MapSet(userSockets, clerkId, c)
    /\ userActivities' = [userActivities EXCEPT ![clerkId] = "Online"]
    /\ emitted' = <<IoEmit(connState, "users_online", MapKeys(userSockets'))>>
    /\ last' = [Handled("user_connected", c, clerkId, 0)
                   EXCEPT !.again = Again(last, clerkId)]
    /\ UNCHANGED <<connState, messages, requests>>

\* variant: an activity update also rebroadcasts the online list
update_activity_Refresh(c, clerkId, activity) ==
    /\ connState[c] = "connected"
    /\ userActivities' = [userActivities EXCEPT ![clerkId] = activity]
    /\ emitted' = <<IoEmit(connState, "activity_updated",
                           [clerkId |-> clerkId, activity |-> activity]),
                    IoEmit(connState, "users_online", MapKeys(userSockets))>>
    /\ last' = Handled("update_activity", c, clerkId, 0)
    /\ UNCHANGED <<connState, userSockets, messages, requests>>

\* socket.on("update_activity", ({ clerkId, activity }) => ...)
update_activity(c, clerkId, activity) ==
    /\ connState[c] = "connected"
    /\ userActivities' = [userActivities EXCEPT ![clerkId] = activity]
    /\ emitted' = <<IoEmit(connState, "activity_updated",
                           [clerkId |-> clerkId, activity |-> activity])>>
    /\ last' = Handled("update_activity", c, clerkId, 0)
    /\ UNCHANGED <<connState, userSockets, messages, requests>>

\* variant: the receiver is told of the message before it is stored
send_message_Announce(c, senderId, receiverId, content) ==
    /\ connState[c] = "connected"
    /\ Len(requests) < MaxRequests
    /\ requests' = Append(requests,
                          Suspended(c, senderId, receiverId, content))
    /\ emitted' = <<IoEmit(connState, "receive_message",
                           [id |-> Len(messages) + 1, senderId |-> senderId,
                            receiverId |-> receiverId, content |-> content])>>
    /\ last' = Handled("send_message", c, senderId, Len(requests) + 1)
    /\ UNCHANGED <<connState, userSockets, userActivities, messages>>

\* socket.on("send_message", async (data) => ...) up to the await:
\* the handler destructures data, calls Message.create and suspends
send_message(c, senderId, receiverId, content) ==
    /\ connState[c] = "connected"
    /\ Len(requests) < MaxRequests
    /\ requests' = Append(requests,
                          Suspended(c, senderId, receiverId, content))
    /\ emitted' = <<>>
    /\ last' = Handled("send_message", c, senderId, Len(requests) + 1)
    /\ UNCHANGED <<connState, userSockets, userActivities, messages>>

\* the document Message.create resolves with
NewMessage(msgs, req) ==
    [id |-> Len(msgs) + 1, senderId |-> req.senderId,
     receiverId |-> req.receiverId, content |-> req.content]

\* variant: no emit to the sender's socket
RelayEmits_NoEcho(cs, message, receiverSocketId, senderSocketId) ==
    IF Found(receiverSocketId)
    THEN <<IoToEmit(cs, receiverSocketId, "receive_message", message)>>
    ELSE <<>>

\* variant: the sender's emit nested in the receiver's branch
RelayEmits_Nested(cs, message, receiverSocketId, senderSocketId) ==
    IF Found(receiverSocketId)
    THEN <<IoToEmit(cs, receiverSocketId, "receive_message", message)>>
         \o (IF Found(senderSocketId)
             THEN <<IoToEmit(cs, senderSocketId, "receive_message", message)>>
             ELSE <<>>)
    ELSE <<>>

\* the two conditional emits after the await
RelayEmits(cs, message, receiverSocketId, senderSocketId) ==
    (IF Found(receiverSocketId)
     THEN <<IoToEmit(cs, receiverSocketId, "receive_message", message)>>
     ELSE <<>>)
    \o
    (IF Found(senderSocketId)
     THEN <<IoToEmit(cs, senderSocketId, "receive_message", message)>>
     ELSE <<>>)

\* Message.create resolved: the rest of the try block runs without suspending
MessageCreateResolves(r) ==
    /\ r \in 1..Len(requests)
    /\ requests[r].state = "pending"
    /\ LET req == requests[r]
           message == NewMessage(messages, req)
           receiverSocketId == MapGet(userSockets, req.receiverId)
           senderSocketId == MapGet(userSockets, req.senderId)
       IN /\ messages' = Append(messages, message)
          /\ requests' = [requests EXCEPT ![r] = Finished("created")]
          /\ emitted' = RelayEmits(connState, message, receiverSocketId,
                                   senderSocketId)
          /\ last' = [Handled("create_resolved", req.socket, req.senderId, r)
                         EXCEPT !.again = Again(last, req.receiverId)]
    /\ UNCHANGED <<connState, userSockets, userActivities>>

\* variant: the error is announced with io.emit
MessageCreateRejects_Broadcast(r) ==
    /\ r \in 1..Len(requests)
    /\ requests[r].state = "pending"
    /\ LET req == requests[r]
       IN /\ requests' = [requests EXCEPT ![r] = Finished("failed")]
          /\ emitted' = <<IoEmit(connState, "message_error", "StoreError")>>
          /\ last' = Handled("create_rejected", req.socket, req.senderId, r)
    /\ UNCHANGED <<connState, userSockets, userActivities, messages>>

\* variant: the error goes to the socket registered for senderId, if any
MessageCreateRejects_ToRegistered(r) ==
    /\ r \in 1..Len(requests)
    /\ requests[r].state = "pending"
    /\ LET req == requests[r]
           senderSocketId == MapGet(userSockets, req.senderId)
       IN /\ requests' = [requests EXCEPT ![r] = Finished("failed")]
          /\ emitted' = IF Found(senderSocketId)
                        THEN <<IoToEmit(connState, senderSocketId,
                                        "message_error", "StoreError")>>
                        ELSE <<>>
          /\ last' = Handled("create_rejected", req.socket, req.senderId, r)
    /\ UNCHANGED <<connState, userSockets, userActivities, messages>>

\* Message.create rejected: the catch block
MessageCreateRejects(r) ==
    /\ r \in 1..Len(requests)
    /\ requests[r].state = "pending"
    /\ LET req == requests[r]
       IN /\ requests' = [requests EXCEPT ![r] = Finished("failed")]
          /\ emitted' = <<SocketEmit(connState, req.socket, "message_error",
                                     "StoreError")>>
          /\ last' = Handled("create_rejected", req.socket, req.senderId, r)
    /\ UNCHANGED <<connState, userSockets, userActivities, messages>>

\* the for loop of the disconnect handler: index of the first entry whose
\* value is this socket id, 0 when the loop ends without a match
FirstEntryOf(m, socketId) ==
    IF \E i \in 1..Len(m) : m[i].socketId = socketId
    THEN CHOOSE i \in 1..Len(m) :
             /\ m[i].socketId = socketId
             /\ \A j \in 1..(i - 1) : m[j].socketId # socketId
    ELSE 0

\* variant: the two broadcasts are made whether or not a user was found
disconnect_AlwaysBroadcast(c) ==
    /\ connState[c] = "connected"
    /\ connState' = [connState EXCEPT ![c] = "disconnected"]
    /\ LET i == FirstEntryOf(userSockets, c)
           disconnectedUserId == IF i = 0 THEN NoUser
                                 ELSE userSockets[i].clerkId
       IN /\ userSockets' = IF i = 0 THEN userSockets
                            ELSE MapDelete(userSockets, disconnectedUserId)
          /\ userActivities' =
                 IF i = 0 THEN userActivities
                 ELSE [userActivities EXCEPT
                          ![disconnectedUserId] = NoActivity]
          /\ emitted' = <<IoEmit(connState', "user_disconnected",
                                 disconnectedUserId),
                          IoEmit(connState', "users_online",
                                 MapKeys(userSockets'))>>
          /\ last' = Handled("disconnect", c, disconnectedUserId, 0)
    /\ UNCHANGED <<messages, requests>>

\* socket.on("disconnect"): the socket has already left the namespace,
\* so io.emit reaches the remaining sockets only
disconnect(c) ==
    /\ connState[c] = "connected"
    /\ connState' = [connState EXCEPT ![c] = "disconnected"]
    /\ LET i == FirstEntryOf(userSockets, c)
           disconnectedUserId == IF i = 0 THEN NoUser
                                 ELSE userSockets[i].clerkId
       IN /\ userSockets' = IF i = 0 THEN userSockets
                            ELSE MapDelete(userSockets, disconnectedUserId)
          /\ userActivities' =
                 IF i = 0 THEN userActivities
                 ELSE [userActivities EXCEPT
                          ![disconnectedUserId] = NoActivity]
          /\ emitted' =
                 IF Truthy(disconnectedUserId)
                 THEN <<IoEmit(connState', "user_disconnected",
                               disconnectedUserId),
                        IoEmit(connState', "users_online",
                               MapKeys(userSockets'))>>
                 ELSE <<>>
          /\ last' = Handled("disconnect", c, disconnectedUserId, 0)
    /\ UNCHANGED <<messages, requests>>

(* ---------------- the browser's store ---------------- *)
\* new Set(array)
SetOf(array) == {array[i] : i \in 1..Len(array)}

\* the step the browser handled last: operation, user id argument, message
\* id; tick alternates with every browser step
Seen(op, userId, id) ==
    [op |-> op, userId |-> userId, id |-> id, tick |-> 1 - seen.tick]

\* a fetchMessages invocation suspended at its await holds its argument
Requested(userId) == [state |-> "pending", userId |-> userId]
Settled == [state |-> "settled", userId |-> NoUser]

\* the user whose session the browser runs: the argument of the latest
\* initSocket call
CurrentUser == listeners[Len(listeners)]

\* setSelectedUser(user)
setSelectedUser(user) ==
    /\ selectedUser' = user
    /\ clientMessages' = <<>>
    /\ seen' = Seen("setSelectedUser", user, 0)
    /\ UNCHANGED <<isConnected, onlineUsers, clientActivities, isLoading,
                   listeners, fetches>>

\* initSocket(userId): every call that passes the isConnected test adds
\* its six listeners to the one module-level socket
initSocket(userId) ==
    /\ ~isConnected
    /\ Len(listeners) < MaxInits
    /\ listeners' = Append(listeners, userId)
    /\ isConnected' = TRUE
    /\ seen' = Seen("initSocket", userId, 0)
    /\ UNCHANGED <<onlineUsers, clientActivities, clientMessages,
                   selectedUser, isLoading, fetches>>

\* disconnectSocket(): the listeners stay on the socket
disconnectSocket ==
    /\ isConnected
    /\ isConnected' = FALSE
    /\ seen' = Seen("disconnectSocket", NoUser, 0)
    /\ UNCHANGED <<onlineUsers, clientActivities, clientMessages,
                   selectedUser, isLoading, listeners, fetches>>

(* ---------------- the socket listeners of the store ---------------- *)
\* An event received on the socket runs the listener of every initSocket
\* call so far, in registration order.

\* socket.on("users_online", (users) => ...)
on_users_online(users) ==
    /\ onlineUsers' =
           LET run[i \in 0..Len(listeners)] ==
                   IF i = 0 THEN onlineUsers ELSE SetOf(users)
           IN run[Len(listeners)]
    /\ seen' = Seen("users_online", NoUser, 0)
    /\ UNCHANGED <<isConnected, clientActivities, clientMessages,
                   selectedUser, isLoading, listeners, fetches>>

\* the test of the receive_message listener; currentUserId is the userId
\* of the initSocket call that registered the listener
InConversation(message, currentUserId, selected) ==
    \/ message.senderId = selected /\ message.receiverId = currentUserId
    \/ message.receiverId = selected /\ message.senderId = currentUserId

\* socket.on("receive_message", (message) => ...)
on_receive_message(message) ==
    /\ clientMessages' =
           LET run[i \in 0..Len(listeners)] ==
                   IF i = 0 THEN clientMessages
                   ELSE IF InConversation(message, listeners[i], selectedUser)
                        THEN Append(run[i - 1], message)
                        ELSE run[i - 1]
           IN run[Len(listeners)]
    /\ seen' = Seen("receive_message", NoUser, message.id)
    /\ UNCHANGED <<isConnected, onlineUsers, clientActivities, selectedUser,
                   isLoading, listeners, fetches>>

\* socket.on("activities", (activities) => ...): activities gives the
\* label of every key of the new Map, NoActivity for a key it lacks
on_activities(activities) ==
    /\ clientActivities' =
           LET run[i \in 0..Len(listeners)] ==
                   IF i = 0 THEN clientActivities
                   ELSE [k \in MirrorKeys |->
                            IF k \in DOMAIN activities THEN activities[k]
                            ELSE NoActivity]
           IN run[Len(listeners)]
    /\ seen' = Seen("activities", NoUser, 0)
    /\ UNCHANGED <<isConnected, onlineUsers, clientMessages, selectedUser,
                   isLoading, listeners, fetches>>

\* socket.on("user_connected", (userId) => ...)
on_user_connected(userId) ==
    /\ onlineUsers' =
           LET run[i \in 0..Len(listeners)] ==
                   IF i = 0 THEN onlineUsers ELSE run[i - 1] \cup {userId}
           IN run[Len(listeners)]
    /\ seen' = Seen("user_connected", userId, 0)
    /\ UNCHANGED <<isConnected, clientActivities, clientMessages,
                   selectedUser, isLoading, listeners, fetches>>

\* socket.on("user_disconnected", (userId) => ...)
on_user_disconnected(userId) ==
    /\ onlineUsers' =
           LET run[i \in 0..Len(listeners)] ==
                   IF i = 0 THEN onlineUsers ELSE run[i - 1] \ {userId}
           IN run[Len(listeners)]
    /\ seen' = Seen("user_disconnected", userId, 0)
    /\ UNCHANGED <<isConnected, clientActivities, clientMessages,
                   selectedUser, isLoading, listeners, fetches>>

\* ({ userId: updatedUserId, activity }) of the activity_updated listener:
\* a field the payload lacks destructures to undefined
UpdatedUserId(payload) ==
    IF "userId" \in DOMAIN payload THEN payload.userId ELSE UndefinedKey

\* socket.on("activity_updated", ({ userId: updatedUserId, activity }) => ...)
on_activity_updated(payload) ==
    /\ clientActivities' =
           LET run[i \in 0..Len(listeners)] ==
                   IF i = 0 THEN clientActivities
                   ELSE [run[i - 1] EXCEPT
                            ![UpdatedUserId(payload)] = payload.activity]
           IN run[Len(listeners)]
    /\ seen' = Seen("activity_updated", UpdatedUserId(payload), 0)
    /\ UNCHANGED <<isConnected, onlineUsers, clientMessages, selectedUser,
                   isLoading, listeners, fetches>>

(* ---------------- history requests of the store ---------------- *)
\* fetchMessages(userId) up to its await: the GET request is sent
fetchMessages(userId) ==
    /\ Len(fetches) < MaxFetches
    /\ isLoading' = TRUE
    /\ fetches' = Append(fetches, Requested(userId))
    /\ seen' = Seen("fetchMessages", userId, 0)
    /\ UNCHANGED <<isConnected, onlineUsers, clientActivities,
                   clientMessages, selectedUser, listeners>>

RECURSIVE SelectConversation(_, _, _)
SelectConversation(docs, me, other) ==
    IF docs = <<>> THEN <<>>
    ELSE LET m == Head(docs)
             rest == SelectConversation(Tail(docs), me, other)
         IN IF \/ m.senderId = me /\ m.receiverId = other
               \/ m.senderId = other /\ m.receiverId = me
            THEN <<m>> \o rest
            ELSE rest

\* response.data of GET /users/messages/:userId: the stored messages
\* between the signed-in user and userId, oldest first
History(docs, me, userId) == SelectConversation(docs, me, userId)

\* the await of fetchMessages returns a response
FetchResolves(f) ==
    /\ f \in 1..Len(fetches)
    /\ fetches[f].state = "pending"
    /\ clientMessages' = History(messages, CurrentUser, fetches[f].userId)
    /\ isLoading' = FALSE
    /\ fetches' = [fetches EXCEPT ![f] = Settled]
    /\ seen' = Seen("fetch_resolved", fetches[f].userId, 0)
    /\ UNCHANGED <<isConnected, onlineUsers, clientActivities, selectedUser,
                   listeners>>

\* the await of fetchMessages throws
FetchRejects(f) ==
    /\ f \in 1..Len(fetches)
    /\ fetches[f].state = "pending"
    /\ clientMessages' = <<>>
    /\ isLoading' = FALSE
    /\ fetches' = [fetches EXCEPT ![f] = Settled]
    /\ seen' = Seen("fetch_rejected", fetches[f].userId, 0)
    /\ UNCHANGED <<isConnected, onlineUsers, clientActivities, selectedUser,
                   listeners>>

\* a step of the server in which the browser does nothing
BrowserIdle == UNCHANGED <<store, link, seen>>

Next ==
    \/ \E c \in Conn : connection(c) /\ BrowserIdle
    \/ \E c \in Conn, u \in UserIds : user_connected(c, u) /\ BrowserIdle
    \/ \E c \in Conn, u \in UserIds, a \in Activities :
           update_activity(c, u, a) /\ BrowserIdle
    \/ \E c \in Conn, s \in UserIds, r \in UserIds, t \in Contents :
           send_message(c, s, r, t) /\ BrowserIdle
    \/ \E r \in 1..MaxRequests : MessageCreateResolves(r) /\ BrowserIdle
    \/ \E r \in 1..MaxRequests : MessageCreateRejects(r) /\ BrowserIdle
    \/ \E c \in Conn : disconnect(c) /\ BrowserIdle

Spec == Init /\ [][Next]_vars

\* The relay handlers neither read nor write userActivities, and
\* update_activity neither reads nor writes userSockets, requests or
\* messages.  The relay properties are checked with clients that connect,
\* register, send messages and disconnect; the presence properties with
\* clients that connect, register, update their activity and disconnect.
NextRelay ==
    \/ \E c \in Conn : connection(c) /\ BrowserIdle
    \/ \E c \in Conn, u \in UserIds : user_connected(c, u) /\ BrowserIdle
    \/ \E c \in Conn, s \in UserIds, r \in UserIds, t \in Contents :
           send_message(c, s, r, t) /\ BrowserIdle
    \/ \E r \in 1..MaxRequests : MessageCreateResolves(r) /\ BrowserIdle
    \/ \E r \in 1..MaxRequests : MessageCreateRejects(r) /\ BrowserIdle
    \/ \E c \in Conn : disconnect(c) /\ BrowserIdle

SpecRelay == Init /\ [][NextRelay]_vars

NextPresence ==
    \/ \E c \in Conn : connection(c) /\ BrowserIdle
    \/ \E c \in Conn, u \in UserIds : user_connected(c, u) /\ BrowserIdle
    \/ \E c \in Conn, u \in UserIds, a \in Activities :
           update_activity(c, u, a) /\ BrowserIdle
    \/ \E c \in Conn : disconnect(c) /\ BrowserIdle

SpecPresence == Init /\ [][NextPresence]_vars

(* ---------------- the browser on its own ---------------- *)
\* The store is driven by its callers and by the events its socket
\* receives; the listeners run only while the socket is connected.
ServerIdle == UNCHANGED server

\* arrays of user ids without repetition, as Array.from(map.keys()) gives
KeyArrays ==
    {q \in UNION {[1..n -> UserIds] : n \in 0..Cardinality(UserIds)} :
        \A i, j \in 1..Len(q) : q[i] = q[j] => i = j}

\* payloads of the activities event
ActivityMaps == [UserIds -> Activities \cup {NoActivity}]

NextMirror ==
    \/ \E u \in UserIds : initSocket(u) /\ ServerIdle /\ UNCHANGED link
    \/ disconnectSocket /\ ServerIdle /\ UNCHANGED link
    \/ \E users \in KeyArrays :
           isConnected /\ on_users_online(users)
           /\ ServerIdle /\ UNCHANGED link
    \/ \E activities \in ActivityMaps :
           isConnected /\ on_activities(activities)
           /\ ServerIdle /\ UNCHANGED link
    \/ \E u \in UserIds :
           isConnected /\ on_user_connected(u)
           /\ ServerIdle /\ UNCHANGED link
    \/ \E u \in UserIds :
           isConnected /\ on_user_disconnected(u)
           /\ ServerIdle /\ UNCHANGED link
    \/ \E u \in UserIds, a \in Activities :
           isConnected /\ on_activity_updated([userId |-> u, activity |-> a])
           /\ ServerIdle /\ UNCHANGED link
    \/ \E u \in UserIds, a \in Activities :
           isConnected /\ on_activity_updated([clerkId |-> u, activity |-> a])
           /\ ServerIdle /\ UNCHANGED link

SpecMirror == Init /\ [][NextMirror]_vars

\* The conversation view: the message collection already holds documents,
\* and the relay's receive_message events for them reach the browser at
\* most once each, while its socket is connected and only when the
\* signed-in user is the sender or the receiver.  The history is
\* requested by a signed-in user, for the user selected at that moment.
Stores ==
    UNION {{q \in [1..n -> [id : 1..n, senderId : UserIds,
                            receiverId : UserIds, content : Contents]] :
               \A i \in 1..n : q[i].id = i} : n \in 1..MaxStored}

InitConversation ==
    /\ connState = [c \in Conn |-> "unborn"]
    /\ userSockets = <<>>
    /\ userActivities = [u \in UserIds |-> NoActivity]
    /\ messages \in Stores
    /\ requests = <<>>
    /\ emitted = <<>>
    /\ last = Handled("init", Undefined, NoUser, 0)
    /\ InitStore

\* a receive_message event of the relay arrives on the browser's socket
Relayed(i) ==
    /\ isConnected
    /\ i \in 1..Len(messages)
    /\ messages[i].id \notin received
    /\ CurrentUser \in {messages[i].senderId, messages[i].receiverId}
    /\ on_receive_message(messages[i])
    /\ received' = received \cup {messages[i].id}
    /\ UNCHANGED <<clientSocket, outbox, inbox>>

NextConversation ==
    \/ \E u \in UserIds : initSocket(u) /\ ServerIdle /\ UNCHANGED link
    \/ disconnectSocket /\ ServerIdle /\ UNCHANGED link
    \/ \E u \in UserIds \cup {NoSelection} :
           setSelectedUser(u) /\ ServerIdle /\ UNCHANGED link
    \/ \E i \in 1..MaxStored : Relayed(i) /\ ServerIdle
    \/ \E u \in UserIds :
           listeners # <<>> /\ u = selectedUser /\ fetchMessages(u)
           /\ ServerIdle /\ UNCHANGED link
    \/ \E f \in 1..MaxFetches : FetchResolves(f) /\ ServerIdle /\ UNCHANGED link
    \/ \E f \in 1..MaxFetches : FetchRejects(f) /\ ServerIdle /\ UNCHANGED link

SpecConversation == InitConversation /\ [][NextConversation]_vars

(* ---------------- the browser connected to the server ---------------- *)
\* the events of one handler step that reach socket c, in emit order
RECURSIVE Incoming(_, _)
Incoming(es, c) ==
    IF es = <<>> THEN <<>>
    ELSE (IF c \in Head(es).to
          THEN <<[event |-> Head(es).event, payload |-> Head(es).payload]>>
          ELSE <<>>) \o Incoming(Tail(es), c)

\* a handler step of the server: what it emits to the browser's socket is
\* queued there
Serves ==
    /\ inbox' = inbox \o Incoming(emitted', clientSocket)
    /\ Len(inbox') <= MaxInbox
    /\ UNCHANGED <<store, clientSocket, outbox, received, seen>>

\* initSocket(userId): socket.connect() opens the connection the server
\* accepts as socket c, and the user_connected packet is on its way
BrowserConnects(c, userId) ==
    /\ initSocket(userId)
    /\ connection(c)
    /\ clientSocket' = c
    /\ outbox' = {userId}
    /\ inbox' = <<>>
    /\ UNCHANGED received

\* the server handles the browser's user_connected packet
BrowserRegisters(userId) ==
    /\ userId \in outbox
    /\ user_connected(clientSocket, userId)
    /\ outbox' = outbox \ {userId}
    /\ inbox' = inbox \o Incoming(emitted', clientSocket)
    /\ Len(inbox') <= MaxInbox
    /\ UNCHANGED <<store, clientSocket, received, seen>>

\* disconnectSocket(): socket.disconnect() closes the connection; what
\* was queued is not handled, and the server's disconnect handler for
\* that socket runs later
BrowserDisconnects ==
    /\ disconnectSocket
    /\ clientSocket' = Undefined
    /\ outbox' = {}
    /\ inbox' = <<>>
    /\ UNCHANGED <<server, received>>

\* the browser's socket hands the oldest queued event to its listeners
Delivers(ev) ==
    /\ inbox # <<>>
    /\ Head(inbox).event = ev
    /\ inbox' = Tail(inbox)
    /\ UNCHANGED <<server, clientSocket, outbox, received>>

\* Every socket but the browser's open one is a peer that may send any
\* event; the browser's connection stays open until disconnectSocket.
NextSession ==
    \/ \E c \in Conn : connection(c) /\ Serves
    \/ \E c \in Conn, u \in UserIds : BrowserConnects(c, u)
    \/ \E u \in UserIds : BrowserRegisters(u)
    \/ BrowserDisconnects
    \/ \E c \in Conn \ {clientSocket}, u \in UserIds :
           user_connected(c, u) /\ Serves
    \/ \E c \in Conn \ {clientSocket}, u \in UserIds, a \in Activities :
           update_activity(c, u, a) /\ Serves
    \/ \E c \in Conn \ {clientSocket} : disconnect(c) /\ Serves
    \/ Delivers("users_online") /\ on_users_online(Head(inbox).payload)
    \/ Delivers("user_disconnected")
           /\ on_user_disconnected(Head(inbox).payload)
    \/ Delivers("activity_updated")
           /\ on_activity_updated(Head(inbox).payload)

SpecSession == Init /\ [][NextSession]_vars

\* update_activity neither reads nor writes userSockets, and no presence
\* listener reads or writes the browser's userActivities: the online set
\* is followed with peers that connect, register and disconnect.
NextOnline ==
    \/ \E c \in Conn : connection(c) /\ Serves
    \/ \E c \in Conn, u \in UserIds : BrowserConnects(c, u)
    \/ \E u \in UserIds : BrowserRegisters(u)
    \/ BrowserDisconnects
    \/ \E c \in Conn \ {clientSocket}, u \in UserIds :
           user_connected(c, u) /\ Serves
    \/ \E c \in Conn \ {clientSocket} : disconnect(c) /\ Serves
    \/ Delivers("users_online") /\ on_users_online(Head(inbox).payload)
    \/ Delivers("user_disconnected")
           /\ on_user_disconnected(Head(inbox).payload)

SpecOnline == Init /\ [][NextOnline]_vars

(* ---------------- vocabulary of the properties ---------------- *)
ReceiveEmits(es) == {i \in 1..Len(es) : es[i].event = "receive_message"}
ErrorEmitsOf(es) == {i \in 1..Len(es) : es[i].event = "message_error"}

\* request r runs its continuation in this step
Resolving(r) ==
    /\ r \in 1..Len(requests)
    /\ requests[r].state = "pending"
    /\ requests'[r].state = "created"

Rejecting(r) ==
    /\ r \in 1..Len(requests)
    /\ requests[r].state = "pending"
    /\ requests'[r].state = "failed"

\* the document the last create_resolved step stored
LastMessage == messages[Len(messages)]

(* ---------------- C1 ---------------- *)
\* C1: persistence before delivery.  Every receive_message emit is made by
\* the step in which a pending request's create call returns, and carries the
\* document that step stored for that request; a step that leaves a request
\* pending (its arrival included) emits no receive_message and no
\* message_error, so nothing is emitted for a request while its create call
\* is pending.
C1_PersistBeforeDelivery ==
    [][ /\ \A i \in ReceiveEmits(emitted') :
              \E r \in 1..Len(requests) :
                  /\ Resolving(r)
                  /\ messages' = Append(messages, emitted'[i].payload)
                  /\ emitted'[i].payload.senderId = requests[r].senderId
                  /\ emitted'[i].payload.receiverId = requests[r].receiverId
                  /\ emitted'[i].payload.content = requests[r].content
        /\ \A i \in ErrorEmitsOf(emitted') :
              \E r \in 1..Len(requests) : Rejecting(r)
        /\ (\A r \in 1..Len(requests) :
                requests[r].state = "pending" =>
                    requests'[r].state = "pending")
             => ReceiveEmits(emitted') \cup ErrorEmitsOf(emitted') = {}
      ]_vars

\* a stored message relayed to receiver and sender by the resolving step
C1_Witness ==
    /\ last.op = "create_resolved"
    /\ Len(messages) = 1
    /\ Cardinality(ReceiveEmits(emitted)) = 2

(* ---------------- C2 ---------------- *)
\* C2: store-failure send.  The step in which a request's create call fails
\* emits exactly one event, a message_error to the socket that submitted the
\* request (reaching no other socket), emits no receive_message, stores no
\* message, and leaves userSockets and userActivities unchanged; so does the
\* step in which the request arrived.
C2_StoreFailure ==
    [][ /\ \A r \in 1..Len(requests) :
              Rejecting(r) =>
                  /\ Len(emitted') = 1
                  /\ emitted'[1].event = "message_error"
                  /\ emitted'[1].room = requests[r].socket
                  /\ emitted'[1].to \subseteq {requests[r].socket}
                  /\ messages' = messages
                  /\ userSockets' = userSockets
                  /\ userActivities' = userActivities
        /\ Len(requests') > Len(requests) =>
                  /\ emitted' = <<>>
                  /\ messages' = messages
                  /\ userSockets' = userSockets
                  /\ userActivities' = userActivities
      ]_vars

\* a failed send while another socket is connected and users are registered
C2_Witness ==
    /\ last.op = "create_rejected"
    /\ Cardinality(Connected(connState)) = 2
    /\ Len(userSockets) = 2
    /\ emitted[1].to = {last.socket}

(* ---------------- C3 ---------------- *)
\* C3 as stated: on a store failure message_error is emitted only to the
\* socket userSockets maps senderId to, and to no socket when senderId has
\* no entry.
C3_Original ==
    last.op = "create_rejected" =>
        \A i \in ErrorEmitsOf(emitted) :
            /\ MapHas(userSockets, last.clerkId)
            /\ emitted[i].room = MapGet(userSockets, last.clerkId)

\* C3 amended: on a store failure message_error is emitted exactly once and
\* only to the socket that submitted the request, whatever userSockets holds
\* for senderId (no entry, or an entry for another socket).
C3_ErrorToSubmitter ==
    last.op = "create_rejected" =>
        /\ ErrorEmitsOf(emitted) = {1}
        /\ emitted[1].room = last.socket
        /\ emitted[1].to \subseteq {last.socket}

\* senderId is registered on another connected socket than the submitting one
C3_Witness ==
    /\ last.op = "create_rejected"
    /\ MapHas(userSockets, last.clerkId)
    /\ MapGet(userSockets, last.clerkId) # last.socket
    /\ MapGet(userSockets, last.clerkId) \in Connected(connState)
    /\ emitted[1].to = {last.socket}

(* ---------------- C4 ---------------- *)
\* C4: offline-receiver send.  When the create call returns while senderId
\* has a registry entry and receiverId has none, the step stores the message
\* and emits exactly one event: receive_message with that message to the
\* socket registered for senderId (so no message_error).  Nothing is kept
\* for the receiver: a user_connected step emits no receive_message.
C4_OfflineReceiver ==
    [][ /\ \A r \in 1..Len(requests) :
              (/\ Resolving(r)
               /\ MapHas(userSockets, requests[r].senderId)
               /\ ~MapHas(userSockets, requests[r].receiverId))
              =>
                  /\ Len(messages') = Len(messages) + 1
                  /\ messages'[Len(messages')].senderId = requests[r].senderId
                  /\ messages'[Len(messages')].receiverId
                         = requests[r].receiverId
                  /\ messages'[Len(messages')].content = requests[r].content
                  /\ Len(emitted') = 1
                  /\ emitted'[1].event = "receive_message"
                  /\ emitted'[1].payload = messages'[Len(messages')]
                  /\ emitted'[1].room
                         = MapGet(userSockets, requests[r].senderId)
        /\ last'.op = "user_connected" => ReceiveEmits(emitted') = {}
      ]_vars

\* a message for an unregistered receiver, relayed back to the sender only
C4_Witness ==
    /\ last.op = "create_resolved"
    /\ MapHas(userSockets, LastMessage.senderId)
    /\ ~MapHas(userSockets, LastMessage.receiverId)
    /\ Cardinality(Connected(connState)) = 2
    /\ Len(emitted) = 1
    /\ emitted[1].to = {MapGet(userSockets, LastMessage.senderId)}

(* ---------------- C5 ---------------- *)
\* C5 as stated: whenever persistence succeeds, the sender is sent
\* receive_message on the socket it submitted the request from (the socket
\* being still connected), whatever the registry holds.
C5_Original ==
    (last.op = "create_resolved" /\ last.socket \in Connected(connState)) =>
        \E i \in ReceiveEmits(emitted) :
            /\ emitted[i].payload = LastMessage
            /\ last.socket \in emitted[i].to

\* C5 amended: when persistence succeeds and userSockets maps senderId to a
\* socket at that moment, the last emit of the step is receive_message with
\* the persisted message to that socket (not necessarily the submitting
\* one); when senderId has no entry there is no sender echo: the only emit,
\* if any, is the one to the socket registered for receiverId.
C5_SenderEcho ==
    last.op = "create_resolved" =>
        LET senderSocketId == MapGet(userSockets, last.clerkId)
            receiverSocketId == MapGet(userSockets, LastMessage.receiverId)
        IN  /\ LastMessage.senderId = last.clerkId
            /\ Found(senderSocketId) =>
                   /\ Len(emitted) >= 1
                   /\ emitted[Len(emitted)].event = "receive_message"
                   /\ emitted[Len(emitted)].payload = LastMessage
                   /\ emitted[Len(emitted)].room = senderSocketId
            /\ ~Found(senderSocketId) =>
                   /\ Len(emitted) = IF Found(receiverSocketId) THEN 1 ELSE 0
                   /\ \A i \in 1..Len(emitted) :
                          emitted[i].room = receiverSocketId

\* the echo goes to the registered socket, which is not the submitting one
C5_Witness ==
    /\ last.op = "create_resolved"
    /\ MapHas(userSockets, last.clerkId)
    /\ MapGet(userSockets, last.clerkId) # last.socket
    /\ last.socket \in Connected(connState)
    /\ emitted[Len(emitted)].to = {MapGet(userSockets, last.clerkId)}
(* ---------------- C6 ---------------- *)
\* number of entries of m whose key is k
Entries(m, k) == Cardinality({i \in 1..Len(m) : m[i].clerkId = k})

\* what a user_connected call for u from socket c must leave behind: one
\* entry for u, mapped to c, and one users_online broadcast whose list has
\* u once, has no duplicates and is the registry's key set
Registered(m, es, u, c) ==
    /\ Entries(m, u) = 1
    /\ MapGet(m, u) = c
    /\ Len(es) = 1
    /\ es[1].event = "users_online"
    /\ es[1].room = Broadcast
    /\ Cardinality({i \in 1..Len(es[1].payload) : es[1].payload[i] = u}) = 1
    /\ {es[1].payload[i] : i \in 1..Len(es[1].payload)} = KeySet(m)
    /\ Len(es[1].payload) = Cardinality(KeySet(m))

\* C6: idempotent registration.  When user_connected(U) is handled twice in
\* succession (same socket or two different sockets), after each of the two
\* calls userSockets has exactly one entry for U, after the second it maps U
\* to the second call's socket, and each call broadcasts one users_online
\* list that contains U exactly once and equals the registry's key set at
\* that moment.
C6_IdempotentRegistration ==
    [][ (/\ last.op = "user_connected"
         /\ last'.op = "user_connected"
         /\ last'.clerkId = last.clerkId)
        =>
            /\ Registered(userSockets, emitted, last.clerkId, last.socket)
            /\ Registered(userSockets', emitted', last'.clerkId,
                          last'.socket)
            /\ KeySet(userSockets') = KeySet(userSockets)
      ]_vars

\* the same user registered twice in a row, from two different sockets,
\* while another user is registered too
C6_Witness ==
    /\ last.op = "user_connected"
    /\ Found(last.again)
    /\ last.again # last.socket
    /\ MapGet(userSockets, last.clerkId) = last.socket
    /\ Len(userSockets) = 2

(* ---------------- C7 ---------------- *)
\* C7: no spurious disconnect broadcast.  When a socket that is the value of
\* no userSockets entry disconnects, the step emits nothing (no
\* user_disconnected, no users_online) and leaves userSockets and
\* userActivities unchanged; a user registered on another socket stays
\* registered.
C7_NoSpuriousDisconnect ==
    [][ \A c \in Conn :
            (/\ connState[c] = "connected"
             /\ connState'[c] = "disconnected"
             /\ c \notin ValueSet(userSockets))
            =>
                /\ emitted' = <<>>
                /\ userSockets' = userSockets
                /\ userActivities' = userActivities
      ]_vars

\* a socket without registry entry closes while a user is registered on the
\* other, still connected socket
C7_Witness ==
    /\ last.op = "disconnect"
    /\ last.clerkId = NoUser
    /\ emitted = <<>>
    /\ Len(userSockets) >= 1
    /\ ValueSet(userSockets) \subseteq Connected(connState)

(* ---------------- C8 ---------------- *)
\* C8: disconnect of a registered connection.  When a socket disconnects,
\* every user B that userSockets maps to it loses its userSockets entry and
\* its userActivities entry, and the step emits to every remaining socket
\* exactly one user_disconnected(B) followed by one users_online whose list
\* is the remaining key set.
C8_DisconnectRegistered ==
    [][ \A c \in Conn : \A B \in UserIds :
            (/\ connState[c] = "connected"
             /\ connState'[c] = "disconnected"
             /\ MapGet(userSockets, B) = c)
            =>
                /\ ~MapHas(userSockets', B)
                /\ userActivities'[B] = NoActivity
                /\ Len(emitted') = 2
                /\ emitted'[1].event = "user_disconnected"
                /\ emitted'[1].payload = B
                /\ emitted'[1].to = Connected(connState')
                /\ emitted'[2].event = "users_online"
                /\ emitted'[2].payload = MapKeys(userSockets')
                /\ emitted'[2].to = Connected(connState')
      ]_vars

(* ---------------- C9 ---------------- *)
\* C9: delta vs. full-set asymmetry.  Handling update_activity emits exactly
\* one event, activity_updated with the user id and the label, to every
\* connected socket, emits no users_online and leaves userSockets unchanged;
\* handling user_connected or a disconnect emits no activity_updated.
C9_DeltaVsFullSet ==
    [][ /\ last'.op = "update_activity" =>
              /\ Len(emitted') = 1
              /\ emitted'[1].event = "activity_updated"
              /\ emitted'[1].room = Broadcast
              /\ emitted'[1].to = Connected(connState')
              /\ emitted'[1].payload.clerkId = last'.clerkId
              /\ emitted'[1].payload.activity = userActivities'[last'.clerkId]
              /\ userSockets' = userSockets
        /\ last'.op \in {"user_connected", "disconnect"} =>
              \A i \in 1..Len(emitted') :
                  emitted'[i].event # "activity_updated"
      ]_vars

\* an activity update broadcast to two connected sockets, users registered
C9_Witness ==
    /\ last.op = "update_activity"
    /\ Cardinality(Connected(connState)) = 2
    /\ Len(userSockets) >= 1
    /\ userActivities[last.clerkId] = "Busy"

(* ---------------- C10 ---------------- *)
\* C10 as stated: every user id with a userActivities entry also has a
\* userSockets entry.
C10_Original ==
    \A u \in UserIds :
        userActivities[u] # NoActivity => MapHas(userSockets, u)

\* C10 amended: an activity entry is created by user_connected or by
\* update_activity for that user id (registered or not) and destroyed only
\* by the disconnect of the socket registered for it; in every reachable
\* state every user id with a userSockets entry has a userActivities entry.
C10_RegistryHasActivity ==
    /\ [](\A u \in UserIds :
              MapHas(userSockets, u) => userActivities[u] # NoActivity)
    /\ [][ \A u \in UserIds :
               /\ (userActivities[u] = NoActivity
                   /\ userActivities'[u] # NoActivity)
                  => /\ last'.op \in {"user_connected", "update_activity"}
                     /\ last'.clerkId = u
               /\ (userActivities[u] # NoActivity
                   /\ userActivities'[u] = NoActivity)
                  => /\ last'.op = "disconnect"
                     /\ last'.clerkId = u
                     /\ MapGet(userSockets, u) = last'.socket
         ]_vars

\* a registered user with its default label next to an unregistered user
\* whose label was set by update_activity
C10_Witness ==
    /\ \E u \in UserIds :
           MapHas(userSockets, u) /\ userActivities[u] = "Online"
    /\ \E u \in UserIds :
           ~MapHas(userSockets, u) /\ userActivities[u] = "Busy"
(* ---------------- C11 ---------------- *)
\* C11 as stated, for a user that is registered: its activity label changes
\* only by an update_activity for that user or by the disconnect of the
\* socket registered for it (not by a repeated user_connected).
C11_Original ==
    [][ \A u \in UserIds :
            (MapHas(userSockets, u)
             /\ userActivities[u] # NoActivity
             /\ userActivities'[u] # userActivities[u])
            => \/ last'.op = "update_activity" /\ last'.clerkId = u
               \/ /\ last'.op = "disconnect"
                  /\ last'.clerkId = u
                  /\ MapGet(userSockets, u) = last'.socket
      ]_vars

\* C11 amended: a user's activity label stays as update_activity set it
\* until the next update_activity for that user, the next user_connected for
\* that user (which resets it to "Online", also when the user is already
\* registered), or the disconnect that removes the user's entry; no event
\* for another user changes it.
C11_LabelPersistence ==
    [][ \A u \in UserIds :
            (userActivities[u] # NoActivity
             /\ userActivities'[u] # userActivities[u])
            => \/ last'.op = "update_activity" /\ last'.clerkId = u
               \/ /\ last'.op = "user_connected"
                  /\ last'.clerkId = u
                  /\ userActivities'[u] = "Online"
               \/ /\ last'.op = "disconnect"
                  /\ last'.clerkId = u
                  /\ MapGet(userSockets, u) = last'.socket
                  /\ userActivities'[u] = NoActivity
      ]_vars

\* a registered user keeps its label while another user registers
C11_Witness ==
    \E u \in UserIds :
        /\ userActivities[u] = "Busy"
        /\ MapHas(userSockets, u)
        /\ last.op = "user_connected"
        /\ last.clerkId # u
(* ---------------- C16 ---------------- *)
\* C16: one delivery per connection.  The step in which a create call
\* returns emits at most two receive_message events, and no two of them go
\* to the same socket, whatever senderId and receiverId are.
C16_OneDeliveryPerConnection ==
    last.op = "create_resolved" =>
        /\ Cardinality(ReceiveEmits(emitted)) <= 2
        /\ \A i \in ReceiveEmits(emitted) : \A j \in ReceiveEmits(emitted) :
               i # j => emitted[i].room # emitted[j].room

(* ---------------- C17 ---------------- *)
\* C17: relay targets are resolved when the store call returns.  The
\* receive_message emits of that step go to exactly the sockets userSockets
\* maps receiverId and senderId to at that moment, receiver first (none for
\* an id without entry); every target is a value of userSockets; an emit
\* reaches its target only if that socket is still connected.
C17_TargetsAtResolution ==
    last.op = "create_resolved" =>
        LET receiverSocketId == MapGet(userSockets, LastMessage.receiverId)
            senderSocketId == MapGet(userSockets, LastMessage.senderId)
            targets == (IF Found(receiverSocketId)
                        THEN <<receiverSocketId>> ELSE <<>>)
                       \o (IF Found(senderSocketId)
                           THEN <<senderSocketId>> ELSE <<>>)
        IN  /\ Len(emitted) = Len(targets)
            /\ \A i \in 1..Len(emitted) :
                   /\ emitted[i].event = "receive_message"
                   /\ emitted[i].payload = LastMessage
                   /\ emitted[i].room = targets[i]
                   /\ emitted[i].room \in ValueSet(userSockets)
                   /\ emitted[i].to = {targets[i]} \cap Connected(connState)

\* the receiver registered while the create call was pending (its
\* user_connected was the event handled just before the call returned) and
\* is sent the message, while the socket that submitted the request has
\* closed in the meantime
C17_Witness ==
    /\ last.op = "create_resolved"
    /\ Found(last.again)
    /\ last.socket \notin Connected(connState)
    /\ \E i \in ReceiveEmits(emitted) :
           /\ emitted[i].room = last.again
           /\ emitted[i].to = {last.again}
           /\ emitted[i].payload.receiverId # emitted[i].payload.senderId

(* ---------------- C18 ---------------- *)
\* C18: registry values are live connections.  Every socket id stored as a
\* value of userSockets belongs to a connected socket.
C18_RegistryValuesLive ==
    ValueSet(userSockets) \subseteq Connected(connState)

(* ---------------- claims about the browser's store ---------------- *)
\* a step of the browser that handled the named operation
Handling(op) == seen'.tick # seen.tick /\ seen'.op = op

\* C13: after the store has handled user_disconnected(U), U is not in
\* onlineUsers and the store's userActivities Map has no entry for U, and
\* every other member and entry is as before.
C13_UserDisconnected ==
    [][Handling("user_disconnected") =>
          LET u == seen'.userId
          IN /\ u \notin onlineUsers'
             /\ clientActivities'[u] = NoActivity
             /\ onlineUsers' \ {u} = onlineUsers \ {u}
             /\ \A k \in MirrorKeys \ {u} :
                    clientActivities'[k] = clientActivities[k]]_vars

\* the browser's socket is open and its listeners have handled every
\* event the server has emitted to it
CaughtUp == clientSocket # Undefined /\ inbox = <<>>

\* C12 as stated: whenever a browser that has called initSocket and is
\* still connected has handled every presence event emitted to it, its
\* onlineUsers is the key set of userSockets; the users_online listener
\* replaces onlineUsers by the payload.
C12_Original ==
    [][/\ Handling("users_online") =>
              onlineUsers' = SetOf(Head(inbox).payload)
       /\ CaughtUp' => onlineUsers' = KeySet(userSockets')]_vars

\* C12, amended: the same from the moment the server has handled the
\* user_connected packet of the browser's connection; before that the
\* server has emitted nothing to the new socket.
C12_OnlineMirror ==
    [][/\ Handling("users_online") =>
              onlineUsers' = SetOf(Head(inbox).payload)
       /\ (CaughtUp' /\ outbox' = {}) =>
              onlineUsers' = KeySet(userSockets')]_vars

\* the browser, registered, has handled the users_online that followed a
\* peer's disconnect and lists exactly the users still registered
C12_Witness ==
    /\ CaughtUp
    /\ outbox = {}
    /\ seen.op = "users_online"
    /\ last.op = "disconnect"
    /\ Truthy(last.clerkId)
    /\ onlineUsers # {}
    /\ onlineUsers = KeySet(userSockets)

\* C14: when the server has handled update_activity for user U with label
\* L and the browser handles the activity_updated event as the server
\* emitted it, the store's userActivities maps U to L afterwards and every
\* other entry is as before.
C14_ActivityUpdated ==
    [][Handling("activity_updated") =>
          LET updated == Head(inbox).payload
          IN /\ clientActivities'[updated.clerkId] = updated.activity
             /\ \A k \in MirrorKeys \ {updated.clerkId} :
                    clientActivities'[k] = clientActivities[k]]_vars

\* the message of a receive_message event, from the id the browser saw
SeenMessage == messages[seen'.id]

\* one endpoint of the message is me and the other is selected
Between(message, me, selected) ==
    \/ message.senderId = me /\ message.receiverId = selected
    \/ message.receiverId = me /\ message.senderId = selected

\* C15: on receive_message(msg) the store appends msg to the end of its
\* messages exactly when one endpoint of msg is the signed-in user and the
\* other is the selected user, and leaves messages alone otherwise;
\* setSelectedUser always leaves messages empty.
C15_MessageFilter ==
    [][/\ Handling("receive_message") =>
              clientMessages' =
                  IF Between(SeenMessage, CurrentUser, selectedUser)
                  THEN Append(clientMessages, SeenMessage)
                  ELSE clientMessages
       /\ Handling("setSelectedUser") => clientMessages' = <<>>]_vars

\* C19: in every state of the store, every message in messages has the
\* signed-in user as one endpoint and the selected user as the other,
\* however setSelectedUser, receive_message events and the responses of
\* fetchMessages interleave.
C19_ConversationScope ==
    \A i \in 1..Len(clientMessages) :
        Between(clientMessages[i], CurrentUser, selectedUser)

\* C20: in every state of the store no message id occurs twice in
\* messages, and a receive_message event appends at most one copy, for
\* every sequence of initSocket, disconnectSocket, initSocket again,
\* receive_message events and fetchMessages responses.
C20_NoDuplicates ==
    [][/\ \A i, j \in 1..Len(clientMessages') :
              clientMessages'[i].id = clientMessages'[j].id => i = j
       /\ Handling("receive_message") =>
              Len(clientMessages') <= Len(clientMessages) + 1]_vars

====
